---- MODULE Spec2Model ----
(***************************************************************************)
(* Seat reservation engine of Modex-System (server/storage.ts) over a      *)
(* PostgreSQL store in READ COMMITTED mode.                                *)
(*                                                                         *)
(* The committed database is the variables shows, seats and bookings.      *)
(* Every `await client.query(...)` of a storage method is one step of the  *)
(* worker running it; a row-locking statement visits its rows one at a     *)
(* time.  Writes of an open transaction are kept in the worker's tx record *)
(* and reach the committed database at COMMIT; ROLLBACK discards them.     *)
(***************************************************************************)
EXTENDS Integers, Sequences, FiniteSets, TLC

\* ------------------------------------------------------------------ bounds
MaxTime  == 1      \* the clock runs 0..MaxTime
MaxCalls == 2      \* calls of the storage interface started in one behaviour

NULL == -1         \* SQL NULL of a timestamp column

Workers == {1, 2}  \* pooled connections, one per call in flight

\* The database starts with the show FirstShow, as createShow left it, with
\* the seats FirstSeats; createShow may add the show SecondShow.
FirstShow  == "A"
SecondShow == "B"
FirstSeats == {1, 2}

ShowIds == {FirstShow, SecondShow}
SeatIds == 1..3           \* the seat ids the store hands out
TotalSeatsGiven == {1}    \* the totalSeats values given to createShow
ListLengths == 0..2       \* the lengths of the seatIds arrays given to a call
Times   == 0..MaxTime

VARIABLES
    shows,      \* table shows:    id -> row
    seats,      \* table seats:    id -> row
    bookings,   \* table bookings: sequence of rows, id = index
    rowLock,    \* seat id -> worker whose open transaction holds the row lock
    showLock,   \* show id -> worker whose open transaction holds the row lock
    pc,         \* worker -> the statement it will run next
    tx,         \* worker -> arguments and uncommitted writes of its call
    result,     \* worker -> what its last finished call returned or threw
    now,        \* the clock
    calls       \* calls started so far

vars == <<shows, seats, bookings, rowLock, showLock, pc, tx, result, now, calls>>

\* ----------------------------------------------------------------- helpers
Range(s) == {s[i] : i \in DOMAIN s}

SeqsOfLengths(S, L) == UNION {[1..k -> S] : k \in L}

\* The seatIds arrays given to a call: the code reads an array only through
\* id = ANY($1) and its length, so one order of each multiset is enumerated.
SeatIdLists ==
    {q \in SeqsOfLengths(SeatIds, ListLengths) : \A i \in 1..(Len(q) - 1) : q[i] <= q[i + 1]}

NoShow == [present |-> FALSE, totalSeats |-> 0, availableSeats |-> 0]

NoSeat == [present |-> FALSE, showId |-> "none", seatNumber |-> 0,
           status |-> "AVAILABLE", lockedUntil |-> NULL]

IdleTx == [showId |-> "none", seatIds |-> <<>>, until |-> NULL, at |-> 0, n |-> 0,
           cand |-> {}, got |-> {}, wseats |-> {}, wavail |-> NULL]

NoResult == [op |-> "none", val |-> "none", count |-> 0,
             showId |-> "none", seatIds |-> <<>>]

\* what a call returned or threw, with the arguments it was given
Outcome(op, val, t) ==
    [op |-> op, val |-> val, count |-> 0,
     showId |-> tx[t].showId, seatIds |-> tx[t].seatIds]

\* a lock query without FOR UPDATE: every row is taken as free
RowFreeAlways(t, s) == TRUE

\* A row lock is free for worker t when nobody else's open transaction holds it.
RowFree(t, s) == rowLock[s] \subseteq {t}

\* a counter update that does not wait for the row lock of the show
ShowRowFreeAlways(t, id) == TRUE

ShowRowFree(t, id) == showLock[id] \subseteq {t}

ReleaseRows(t) == [s \in SeatIds |-> rowLock[s] \ {t}]

ReleaseShows(t) == [i \in ShowIds |-> showLock[i] \ {t}]

\* pool.connect() hands out the first idle connection.
Idle(t) == pc[t] = "idle" /\ \A u \in Workers : u < t => pc[u] # "idle"

\* a rollback that leaves the seat update in place, as if the UPDATE had run
\* outside the transaction
RollbackKeepsSeats(t, op, val) ==
    /\ rowLock' = ReleaseRows(t)
    /\ showLock' = ReleaseShows(t)
    /\ pc' = [pc EXCEPT ![t] = "idle"]
    /\ result' = [result EXCEPT ![t] = Outcome(op, val, t)]
    /\ tx' = [tx EXCEPT ![t] = IdleTx]
    /\ seats' = [s \in SeatIds |->
                    IF s \in tx[t].wseats
                    THEN [seats[s] EXCEPT !.status = "BOOKED", !.lockedUntil = NULL]
                    ELSE seats[s]]
    /\ UNCHANGED <<shows, bookings>>

\* ROLLBACK followed by the throw / return of `val`: the transaction's row
\* locks are released and its writes are dropped with the tx record.
Rollback(t, op, val) ==
    /\ rowLock' = ReleaseRows(t)
    /\ showLock' = ReleaseShows(t)
    /\ pc' = [pc EXCEPT ![t] = "idle"]
    /\ result' = [result EXCEPT ![t] = Outcome(op, val, t)]
    /\ tx' = [tx EXCEPT ![t] = IdleTx]
    /\ UNCHANGED <<shows, seats, bookings>>

\* -------------------------------------------------------------- createShow
FreshShowId == CHOOSE i \in ShowIds : ~shows[i].present

NumSeats == Cardinality({s \in SeatIds : seats[s].present})

\* db.insert(shows).values({... availableSeats: insertShow.totalSeats})
CsInsertShow(t, total) ==
    /\ Idle(t)
    /\ calls < MaxCalls
    /\ calls' = calls + 1
    /\ \E i \in ShowIds : ~shows[i].present
    /\ NumSeats + total <= Cardinality(SeatIds)
    /\ LET id == FreshShowId IN
        /\ shows' = [shows EXCEPT ![id] =
               [present |-> TRUE, totalSeats |-> total, availableSeats |-> total]]
        /\ tx' = [tx EXCEPT ![t] = [IdleTx EXCEPT !.showId = id, !.n = total]]
    /\ pc' = [pc EXCEPT ![t] = "cs_seats"]
    /\ result' = [result EXCEPT ![t] = NoResult]
    /\ UNCHANGED <<seats, bookings, rowLock, showLock, now>>

\* createSeats(show.id, count): seatNumber i + 1, status AVAILABLE
CreateSeats(showId, count) ==
    LET base == NumSeats IN
    [s \in SeatIds |->
        IF s > base /\ s <= base + count
        THEN [present |-> TRUE, showId |-> showId, seatNumber |-> s - base,
              status |-> "AVAILABLE", lockedUntil |-> NULL]
        ELSE seats[s]]

CsCreateSeats(t) ==
    /\ pc[t] = "cs_seats"
    /\ seats' = CreateSeats(tx[t].showId, tx[t].n)
    /\ pc' = [pc EXCEPT ![t] = "idle"]
    /\ result' = [result EXCEPT ![t] = Outcome("createShow", "OK", t)]
    /\ tx' = [tx EXCEPT ![t] = IdleTx]
    /\ UNCHANGED <<shows, bookings, rowLock, showLock, now, calls>>

\* ---------------------------------------------------------- attemptBooking
\* a lock query without the show_id condition
LockQueryRowsAnyShow(showId, seatIds) ==
    {s \in SeatIds : seats[s].present /\ s \in Range(seatIds)}

\* SELECT ... FROM seats WHERE id = ANY($1) AND show_id = $2
LockQueryRows(showId, seatIds) ==
    {s \in SeatIds : /\ seats[s].present
                     /\ s \in Range(seatIds)
                     /\ seats[s].showId = showId}

\* a filter that forgets BOOKED seats
IsUnavailableHeldOnly(seat, t) ==
    seat.status = "PENDING" /\ ~(seat.lockedUntil # NULL /\ seat.lockedUntil < t)

\* a filter that forgets the expiry of a hold
IsUnavailableNoExpiry(seat, t) == seat.status # "AVAILABLE"

\* a filter that forgets the holds
IsUnavailableBookedOnly(seat, t) == seat.status = "BOOKED"

\* the filter of lockResult.rows: not AVAILABLE and not an expired PENDING
IsUnavailable(seat, t) ==
    /\ seat.status # "AVAILABLE"
    /\ ~(seat.status = "PENDING" /\ seat.lockedUntil # NULL /\ seat.lockedUntil < t)

\* UPDATE seats SET status = 'BOOKED' ... WHERE id = ANY($1)
UpdateSeatsRows(seatIds) == {s \in SeatIds : seats[s].present /\ s \in Range(seatIds)}

\* a counter decremented by one per booking instead of one per seat
NewAvailableByOne(avail, seatIds) == avail - 1

\* SET available_seats = available_seats - $1, with $1 = seatIds.length
NewAvailable(avail, seatIds) == avail - Len(seatIds)

\* POST /api/bookings reaches attemptBooking with a seat list of at least one
\* id (bookingSchema) and the id of a show that getShowById found.
RouteAccepts(showId, seatIds) ==
    /\ Len(seatIds) >= 1
    /\ shows[showId].present

\* BEGIN, and the lock query is sent.
BeginAttempt(t, showId, seatIds) ==
    /\ calls' = calls + 1
    /\ pc' = [pc EXCEPT ![t] = "ab_lock"]
    /\ tx' = [tx EXCEPT ![t] = [IdleTx EXCEPT !.showId = showId, !.seatIds = seatIds,
                                             !.cand = LockQueryRows(showId, seatIds)]]
    /\ result' = [result EXCEPT ![t] = NoResult]
    /\ UNCHANGED <<shows, seats, bookings, rowLock, showLock, now>>

AbBegin(t, showId, seatIds) ==
    /\ Idle(t)
    /\ calls < MaxCalls
    /\ RouteAccepts(showId, seatIds)
    /\ BeginAttempt(t, showId, seatIds)

\* FOR UPDATE NOWAIT takes the lock of one more row.
AbLockRow(t) ==
    /\ pc[t] = "ab_lock"
    /\ \E s \in tx[t].cand \ tx[t].got :
        /\ RowFree(t, s)
        /\ rowLock' = [rowLock EXCEPT ![s] = {t}]
        /\ tx' = [tx EXCEPT ![t].got = @ \cup {s}]
    /\ UNCHANGED <<shows, seats, bookings, showLock, pc, result, now, calls>>

\* a lock query without NOWAIT: it waits for the row instead of rejecting
AbLockWaits(t) ==
    /\ pc[t] = "ab_lock"
    /\ FALSE
    /\ UNCHANGED vars

\* FOR UPDATE NOWAIT meets a row locked by another transaction: the query
\* rejects, the catch block rolls back and throws SEATS_LOCKED.
AbLockFail(t) ==
    /\ pc[t] = "ab_lock"
    /\ \E s \in tx[t].cand \ tx[t].got : ~RowFree(t, s)
    /\ Rollback(t, "attemptBooking", "SEATS_LOCKED")
    /\ UNCHANGED <<now, calls>>

\* a row count check against the number of distinct seat ids
AbLockDoneDistinct(t) ==
    /\ pc[t] = "ab_lock"
    /\ tx[t].cand \ tx[t].got = {}
    /\ IF Cardinality(tx[t].got) # Cardinality(Range(tx[t].seatIds))
       THEN Rollback(t, "attemptBooking", "INVALID_SEATS")
       ELSE IF \E s \in tx[t].got : IsUnavailable(seats[s], now)
       THEN Rollback(t, "attemptBooking", "SEATS_UNAVAILABLE")
       ELSE /\ pc' = [pc EXCEPT ![t] = "ab_seats"]
            /\ UNCHANGED <<shows, seats, bookings, rowLock, showLock, tx, result>>
    /\ UNCHANGED <<now, calls>>

\* The lock query returns; rowCount and the statuses are checked.
AbLockDone(t) ==
    /\ pc[t] = "ab_lock"
    /\ tx[t].cand \ tx[t].got = {}
    /\ IF Cardinality(tx[t].got) # Len(tx[t].seatIds)
       THEN Rollback(t, "attemptBooking", "INVALID_SEATS")
       ELSE IF \E s \in tx[t].got : IsUnavailable(seats[s], now)
       THEN Rollback(t, "attemptBooking", "SEATS_UNAVAILABLE")
       ELSE /\ pc' = [pc EXCEPT ![t] = "ab_seats"]
            /\ UNCHANGED <<shows, seats, bookings, rowLock, showLock, tx, result>>
    /\ UNCHANGED <<now, calls>>

\* a seat update sent on the pool instead of the transaction's client: it
\* commits on its own
AbUpdateSeatsAutocommit(t) ==
    /\ pc[t] = "ab_seats"
    /\ LET rows == {s \in SeatIds : seats[s].present /\ s \in Range(tx[t].seatIds)} IN
        seats' = [s \in SeatIds |->
                     IF s \in rows
                     THEN [seats[s] EXCEPT !.status = "BOOKED", !.lockedUntil = NULL]
                     ELSE seats[s]]
    /\ pc' = [pc EXCEPT ![t] = "ab_show"]
    /\ UNCHANGED <<shows, bookings, rowLock, showLock, tx, result, now, calls>>

\* UPDATE seats SET status = 'BOOKED', locked_until = NULL WHERE id = ANY($1)
AbUpdateSeats(t) ==
    /\ pc[t] = "ab_seats"
    /\ LET rows == UpdateSeatsRows(tx[t].seatIds) IN
        /\ \A s \in rows : RowFree(t, s)
        /\ rowLock' = [s \in SeatIds |-> IF s \in rows THEN {t} ELSE rowLock[s]]
        /\ tx' = [tx EXCEPT ![t].wseats = rows]
    /\ pc' = [pc EXCEPT ![t] = "ab_show"]
    /\ UNCHANGED <<shows, seats, bookings, showLock, result, now, calls>>

\* a counter update that also takes the row locks of the show's seats, as a
\* counter recomputed from the seats under a locking read would
AbUpdateShowLockingSeats(t) ==
    /\ pc[t] = "ab_show"
    /\ LET id == tx[t].showId IN
        /\ \A s \in SeatIds :
              (seats[s].present /\ seats[s].showId = id) => RowFree(t, s)
        /\ ShowRowFree(t, id)
        /\ showLock' = [showLock EXCEPT ![id] = {t}]
        /\ tx' = [tx EXCEPT ![t].wavail =
                     NewAvailable(shows[id].availableSeats, tx[t].seatIds)]
    /\ pc' = [pc EXCEPT ![t] = "ab_insert"]
    /\ UNCHANGED <<shows, seats, bookings, rowLock, result, now, calls>>

\* UPDATE shows SET available_seats = available_seats - $1 WHERE id = $2
\* waits for the row lock of the show, then reads its latest committed value.
AbUpdateShow(t) ==
    /\ pc[t] = "ab_show"
    /\ LET id == tx[t].showId IN
        IF shows[id].present
        THEN /\ ShowRowFree(t, id)
             /\ showLock' = [showLock EXCEPT ![id] = {t}]
             /\ tx' = [tx EXCEPT ![t].wavail =
                          NewAvailable(shows[id].availableSeats, tx[t].seatIds)]
        ELSE UNCHANGED <<showLock, tx>>
    /\ pc' = [pc EXCEPT ![t] = "ab_insert"]
    /\ UNCHANGED <<shows, seats, bookings, rowLock, result, now, calls>>

\* INSERT INTO bookings (...) VALUES ($1, $2, $3, 'CONFIRMED', NOW()); show_id
\* references shows.id, so an unknown show rejects the insert.
AbInsert(t) ==
    /\ pc[t] = "ab_insert"
    /\ IF shows[tx[t].showId].present
       THEN /\ pc' = [pc EXCEPT ![t] = "ab_commit"]
            /\ UNCHANGED <<shows, seats, bookings, rowLock, showLock, tx, result>>
       ELSE Rollback(t, "attemptBooking", "ERROR")
    /\ UNCHANGED <<now, calls>>

\* the committed seats table after the transaction's seat update is applied
ApplySeats(t) ==
    [s \in SeatIds |->
        IF s \in tx[t].wseats
        THEN [seats[s] EXCEPT !.status = "BOOKED", !.lockedUntil = NULL]
        ELSE seats[s]]

\* the committed shows table after the transaction's counter update is applied
ApplyShow(t) ==
    IF tx[t].wavail = NULL THEN shows
    ELSE [shows EXCEPT ![tx[t].showId].availableSeats = tx[t].wavail]

ConfirmedBooking(t) ==
    [showId |-> tx[t].showId, seatIds |-> tx[t].seatIds,
     status |-> "CONFIRMED", expiresAt |-> NULL]

\* COMMIT: the three writes become visible together, the locks are released.
AbCommit(t) ==
    /\ pc[t] = "ab_commit"
    /\ seats' = ApplySeats(t)
    /\ shows' = ApplyShow(t)
    /\ bookings' = Append(bookings, ConfirmedBooking(t))
    /\ rowLock' = ReleaseRows(t)
    /\ showLock' = ReleaseShows(t)
    /\ pc' = [pc EXCEPT ![t] = "idle"]
    /\ result' = [result EXCEPT ![t] = Outcome("attemptBooking", "CONFIRMED", t)]
    /\ tx' = [tx EXCEPT ![t] = IdleTx]
    /\ UNCHANGED <<now, calls>>

\* A statement after the lock query rejects (the store fails it): the outer
\* catch rolls back and rethrows.
AbStoreError(t) ==
    /\ pc[t] \in {"ab_seats", "ab_show", "ab_insert", "ab_commit"}
    /\ Rollback(t, "attemptBooking", "ERROR")
    /\ UNCHANGED <<now, calls>>

\* ---------------------------------------------------------------- lockSeats
\* a lock query that takes any seat not BOOKED, whatever its expiry
HoldQualNoExpiry(seat, t) == seat.status \in {"AVAILABLE", "PENDING"}

\* status = 'AVAILABLE' OR (status = 'PENDING' AND locked_until < NOW()); NOW()
\* is the start time of the transaction.
HoldQual(seat, t) ==
    \/ seat.status = "AVAILABLE"
    \/ seat.status = "PENDING" /\ seat.lockedUntil # NULL /\ seat.lockedUntil < t

\* SELECT id FROM seats WHERE id = ANY($1) AND (...) as the statement's
\* snapshot sees it
HoldQueryRows(seatIds, t) ==
    {s \in SeatIds : /\ seats[s].present
                     /\ s \in Range(seatIds)
                     /\ HoldQual(seats[s], t)}

\* BEGIN, and the lock query is sent.
LsBegin(t, seatIds, until) ==
    /\ Idle(t)
    /\ calls < MaxCalls
    /\ calls' = calls + 1
    /\ pc' = [pc EXCEPT ![t] = "ls_lock"]
    /\ tx' = [tx EXCEPT ![t] = [IdleTx EXCEPT !.seatIds = seatIds, !.until = until,
                                             !.at = now,
                                             !.cand = HoldQueryRows(seatIds, now)]]
    /\ result' = [result EXCEPT ![t] = NoResult]
    /\ UNCHANGED <<shows, seats, bookings, rowLock, showLock, now>>

\* FOR UPDATE NOWAIT visits one more row of its snapshot: it takes the row
\* lock and keeps the row if its latest committed version still qualifies.
LsLockRow(t) ==
    /\ pc[t] = "ls_lock"
    /\ \E s \in tx[t].cand \ tx[t].got :
        /\ RowFree(t, s)
        /\ IF HoldQual(seats[s], tx[t].at)
           THEN /\ rowLock' = [rowLock EXCEPT ![s] = {t}]
                /\ tx' = [tx EXCEPT ![t].got = @ \cup {s}]
           ELSE /\ tx' = [tx EXCEPT ![t].cand = @ \ {s}]
                /\ UNCHANGED rowLock
    /\ UNCHANGED <<shows, seats, bookings, showLock, pc, result, now, calls>>

\* a row locked by another transaction: the query rejects, catch: ROLLBACK,
\* return false
LsLockFail(t) ==
    /\ pc[t] = "ls_lock"
    /\ \E s \in tx[t].cand \ tx[t].got : ~RowFree(t, s)
    /\ Rollback(t, "lockSeats", "FALSE")
    /\ UNCHANGED <<now, calls>>

\* a row count check that accepts any non-empty result
LsLockDoneAnyRow(t) ==
    /\ pc[t] = "ls_lock"
    /\ tx[t].cand \ tx[t].got = {}
    /\ IF tx[t].got = {}
       THEN Rollback(t, "lockSeats", "FALSE")
       ELSE /\ pc' = [pc EXCEPT ![t] = "ls_update"]
            /\ UNCHANGED <<shows, seats, bookings, rowLock, showLock, tx, result>>
    /\ UNCHANGED <<now, calls>>

\* The lock query returns: lockResult.rowCount !== seatIds.length
LsLockDone(t) ==
    /\ pc[t] = "ls_lock"
    /\ tx[t].cand \ tx[t].got = {}
    /\ IF Cardinality(tx[t].got) # Len(tx[t].seatIds)
       THEN Rollback(t, "lockSeats", "FALSE")
       ELSE /\ pc' = [pc EXCEPT ![t] = "ls_update"]
            /\ UNCHANGED <<shows, seats, bookings, rowLock, showLock, tx, result>>
    /\ UNCHANGED <<now, calls>>

\* UPDATE seats SET status = 'PENDING', locked_until = $1 WHERE id = ANY($2)
LsUpdate(t) ==
    /\ pc[t] = "ls_update"
    /\ LET rows == UpdateSeatsRows(tx[t].seatIds) IN
        /\ \A s \in rows : RowFree(t, s)
        /\ rowLock' = [s \in SeatIds |-> IF s \in rows THEN {t} ELSE rowLock[s]]
        /\ tx' = [tx EXCEPT ![t].wseats = rows]
    /\ pc' = [pc EXCEPT ![t] = "ls_commit"]
    /\ UNCHANGED <<shows, seats, bookings, showLock, result, now, calls>>

\* the committed seats table after the transaction's hold is applied
ApplyHold(t) ==
    [s \in SeatIds |->
        IF s \in tx[t].wseats
        THEN [seats[s] EXCEPT !.status = "PENDING", !.lockedUntil = tx[t].until]
        ELSE seats[s]]

\* COMMIT; return true
LsCommit(t) ==
    /\ pc[t] = "ls_commit"
    /\ seats' = ApplyHold(t)
    /\ rowLock' = ReleaseRows(t)
    /\ pc' = [pc EXCEPT ![t] = "idle"]
    /\ result' = [result EXCEPT ![t] = Outcome("lockSeats", "TRUE", t)]
    /\ tx' = [tx EXCEPT ![t] = IdleTx]
    /\ UNCHANGED <<shows, bookings, showLock, now, calls>>

\* ------------------------------------------------------ releaseExpiredLocks
\* a where clause without the expiry condition
ReaperQualNoExpiry(seat, t) == seat.status = "PENDING"

\* status = 'PENDING' AND locked_until < $now, $now = new Date() of the call
ReaperQual(seat, t) ==
    /\ seat.status = "PENDING"
    /\ seat.lockedUntil # NULL
    /\ seat.lockedUntil < t

ReaperRows(t) == {s \in SeatIds : seats[s].present /\ ReaperQual(seats[s], t)}

\* The UPDATE is sent (one statement, its own transaction).
RpBegin(t) ==
    /\ Idle(t)
    /\ calls < MaxCalls
    /\ calls' = calls + 1
    /\ pc' = [pc EXCEPT ![t] = "rp_rows"]
    /\ tx' = [tx EXCEPT ![t] = [IdleTx EXCEPT !.at = now, !.cand = ReaperRows(now)]]
    /\ result' = [result EXCEPT ![t] = NoResult]
    /\ UNCHANGED <<shows, seats, bookings, rowLock, showLock, now>>

\* an UPDATE that takes the rows of its snapshot without looking at their
\* latest committed version
RpRowNoRecheck(t) ==
    /\ pc[t] = "rp_rows"
    /\ \E s \in tx[t].cand \ tx[t].got :
        /\ RowFree(t, s)
        /\ rowLock' = [rowLock EXCEPT ![s] = {t}]
        /\ tx' = [tx EXCEPT ![t].got = @ \cup {s}]
    /\ UNCHANGED <<shows, seats, bookings, showLock, pc, result, now, calls>>

\* The UPDATE visits one more row of its snapshot; it waits while another
\* transaction holds the row lock, then updates the row if its latest
\* committed version still qualifies.
RpRow(t) ==
    /\ pc[t] = "rp_rows"
    /\ \E s \in tx[t].cand \ tx[t].got :
        /\ RowFree(t, s)
        /\ IF ReaperQual(seats[s], tx[t].at)
           THEN /\ rowLock' = [rowLock EXCEPT ![s] = {t}]
                /\ tx' = [tx EXCEPT ![t].got = @ \cup {s}]
           ELSE /\ tx' = [tx EXCEPT ![t].cand = @ \ {s}]
                /\ UNCHANGED rowLock
    /\ UNCHANGED <<shows, seats, bookings, showLock, pc, result, now, calls>>

\* a sweep that reports the rows it found and leaves them as they are
ApplyReleaseKeepsRows(t) == seats

\* the committed seats table after the sweep
ApplyRelease(t) ==
    [s \in SeatIds |->
        IF s \in tx[t].got
        THEN [seats[s] EXCEPT !.status = "AVAILABLE", !.lockedUntil = NULL]
        ELSE seats[s]]

\* The statement ends and commits; result.length is returned.
RpDone(t) ==
    /\ pc[t] = "rp_rows"
    /\ tx[t].cand \ tx[t].got = {}
    /\ seats' = ApplyRelease(t)
    /\ rowLock' = ReleaseRows(t)
    /\ pc' = [pc EXCEPT ![t] = "idle"]
    /\ result' = [result EXCEPT ![t] =
           [Outcome("releaseExpiredLocks", "OK", t) EXCEPT
               !.count = Cardinality(tx[t].got)]]
    /\ tx' = [tx EXCEPT ![t] = IdleTx]
    /\ UNCHANGED <<shows, bookings, showLock, now, calls>>

\* ---------------------------------------------------------------- unlockSeats
\* a where clause without the status condition
UnlockQualAny(seat) == TRUE

\* id = ANY($seatIds) AND status = 'PENDING'
UnlockQual(seat) == seat.status = "PENDING"

UnlockRows(seatIds) ==
    {s \in SeatIds : seats[s].present /\ s \in Range(seatIds) /\ UnlockQual(seats[s])}

\* The UPDATE is sent (one statement, its own transaction).
UsBegin(t, seatIds) ==
    /\ Idle(t)
    /\ calls < MaxCalls
    /\ calls' = calls + 1
    /\ pc' = [pc EXCEPT ![t] = "us_rows"]
    /\ tx' = [tx EXCEPT ![t] = [IdleTx EXCEPT !.seatIds = seatIds, !.at = now,
                                             !.cand = UnlockRows(seatIds)]]
    /\ result' = [result EXCEPT ![t] = NoResult]
    /\ UNCHANGED <<shows, seats, bookings, rowLock, showLock, now>>

\* The UPDATE visits one more row of its snapshot, waiting for its row lock,
\* and keeps the row if its latest committed version is still PENDING.
UsRow(t) ==
    /\ pc[t] = "us_rows"
    /\ \E s \in tx[t].cand \ tx[t].got :
        /\ RowFree(t, s)
        /\ IF UnlockQual(seats[s])
           THEN /\ rowLock' = [rowLock EXCEPT ![s] = {t}]
                /\ tx' = [tx EXCEPT ![t].got = @ \cup {s}]
           ELSE /\ tx' = [tx EXCEPT ![t].cand = @ \ {s}]
                /\ UNCHANGED rowLock
    /\ UNCHANGED <<shows, seats, bookings, showLock, pc, result, now, calls>>

\* The statement ends and commits: status AVAILABLE, lockedUntil null.
UsDone(t) ==
    /\ pc[t] = "us_rows"
    /\ tx[t].cand \ tx[t].got = {}
    /\ seats' = ApplyRelease(t)
    /\ rowLock' = ReleaseRows(t)
    /\ pc' = [pc EXCEPT ![t] = "idle"]
    /\ result' = [result EXCEPT ![t] = Outcome("unlockSeats", "OK", t)]
    /\ tx' = [tx EXCEPT ![t] = IdleTx]
    /\ UNCHANGED <<shows, bookings, showLock, now, calls>>

\* ---------------------------------------------------------- markSeatsAsBooked
\* The UPDATE ... WHERE id = ANY($seatIds) is sent (its own transaction).
MbBegin(t, seatIds) ==
    /\ Idle(t)
    /\ calls < MaxCalls
    /\ calls' = calls + 1
    /\ pc' = [pc EXCEPT ![t] = "mb_rows"]
    /\ tx' = [tx EXCEPT ![t] = [IdleTx EXCEPT !.seatIds = seatIds, !.at = now,
                                             !.cand = UpdateSeatsRows(seatIds)]]
    /\ result' = [result EXCEPT ![t] = NoResult]
    /\ UNCHANGED <<shows, seats, bookings, rowLock, showLock, now>>

\* The UPDATE visits one more row, waiting for its row lock.
MbRow(t) ==
    /\ pc[t] = "mb_rows"
    /\ \E s \in tx[t].cand \ tx[t].got :
        /\ RowFree(t, s)
        /\ rowLock' = [rowLock EXCEPT ![s] = {t}]
        /\ tx' = [tx EXCEPT ![t].got = @ \cup {s}]
    /\ UNCHANGED <<shows, seats, bookings, showLock, pc, result, now, calls>>

\* a SET that leaves locked_until as it was
ApplyBookedKeepsExpiry(t) ==
    [s \in SeatIds |->
        IF s \in tx[t].got THEN [seats[s] EXCEPT !.status = "BOOKED"] ELSE seats[s]]

\* .set({ status: "BOOKED", lockedUntil: null })
ApplyBooked(t) ==
    [s \in SeatIds |->
        IF s \in tx[t].got
        THEN [seats[s] EXCEPT !.status = "BOOKED", !.lockedUntil = NULL]
        ELSE seats[s]]

\* The statement ends and commits.
MbDone(t) ==
    /\ pc[t] = "mb_rows"
    /\ tx[t].cand \ tx[t].got = {}
    /\ seats' = ApplyBooked(t)
    /\ rowLock' = ReleaseRows(t)
    /\ pc' = [pc EXCEPT ![t] = "idle"]
    /\ result' = [result EXCEPT ![t] = Outcome("markSeatsAsBooked", "OK", t)]
    /\ tx' = [tx EXCEPT ![t] = IdleTx]
    /\ UNCHANGED <<shows, bookings, showLock, now, calls>>

\* --------------------------------------------------- updateShowAvailableSeats
\* UPDATE shows SET available_seats = available_seats + $delta WHERE id = $id,
\* one statement in its own transaction; it waits for the row lock of the show.
UpdateShowAvailableSeats(t, id, delta) ==
    /\ Idle(t)
    /\ calls < MaxCalls
    /\ calls' = calls + 1
    /\ IF shows[id].present
       THEN /\ ShowRowFree(t, id)
            /\ shows' = [shows EXCEPT ![id].availableSeats = @ + delta]
       ELSE UNCHANGED shows
    /\ result' = [result EXCEPT ![t] =
           [NoResult EXCEPT !.op = "updateShowAvailableSeats", !.val = "OK",
                            !.showId = id]]
    /\ UNCHANGED <<seats, bookings, rowLock, showLock, pc, tx, now>>

\* ------------------------------------------------------- bookings (deferred)
BookingTtl == 1    \* 2 * 60 * 1000 ms, the unit of the clock

BookingStatuses == {"PENDING", "CONFIRMED", "FAILED"}

\* an insert that leaves expires_at to the column's default (none)
PendingBookingNoExpiry(showId, seatIds) ==
    [showId |-> showId, seatIds |-> seatIds, status |-> "PENDING", expiresAt |-> NULL]

\* the row createBooking inserts: status defaults to PENDING
PendingBooking(showId, seatIds) ==
    [showId |-> showId, seatIds |-> seatIds,
     status |-> "PENDING", expiresAt |-> now + BookingTtl]

\* db.insert(bookings).values({...insertBooking, expiresAt}); show_id
\* references shows.id, so an unknown show rejects the insert.
CreateBooking(t, showId, seatIds) ==
    /\ Idle(t)
    /\ calls < MaxCalls
    /\ calls' = calls + 1
    /\ IF shows[showId].present
       THEN /\ bookings' = Append(bookings, PendingBooking(showId, seatIds))
            /\ result' = [result EXCEPT ![t] =
                   [NoResult EXCEPT !.op = "createBooking", !.val = "OK",
                                    !.showId = showId, !.seatIds = seatIds]]
       ELSE /\ UNCHANGED bookings
            /\ result' = [result EXCEPT ![t] =
                   [NoResult EXCEPT !.op = "createBooking", !.val = "ERROR",
                                    !.showId = showId, !.seatIds = seatIds]]
    /\ UNCHANGED <<shows, seats, rowLock, showLock, pc, tx, now>>

\* .set({ status }).where(eq(bookings.id, id))
SetBookingStatus(id, status) == [bookings EXCEPT ![id].status = status]

\* db.update(bookings).set({ status }).where(eq(bookings.id, id)).returning()
UpdateBookingStatus(t, id, status) ==
    /\ Idle(t)
    /\ calls < MaxCalls
    /\ calls' = calls + 1
    /\ IF id \in DOMAIN bookings
       THEN /\ bookings' = SetBookingStatus(id, status)
            /\ result' = [result EXCEPT ![t] =
                   [NoResult EXCEPT !.op = "updateBookingStatus", !.val = status,
                                    !.count = id]]
       ELSE /\ UNCHANGED bookings
            /\ result' = [result EXCEPT ![t] =
                   [NoResult EXCEPT !.op = "updateBookingStatus", !.val = "UNDEFINED",
                                    !.count = id]]
    /\ UNCHANGED <<shows, seats, rowLock, showLock, pc, tx, now>>

\* ------------------------------------------------- getExpiredPendingBookings
\* a where clause that selects the bookings whose deadline is still ahead
ExpiredPendingReversed(b, t) ==
    b.status = "PENDING" /\ b.expiresAt # NULL /\ b.expiresAt > t

\* status = 'PENDING' AND expires_at < $now
ExpiredPending(b, t) ==
    b.status = "PENDING" /\ b.expiresAt # NULL /\ b.expiresAt < t

GetExpiredPendingBookings == {i \in DOMAIN bookings : ExpiredPending(bookings[i], now)}

\* ------------------------------------------------- the reaper's second sweep
\* One background sweeper: for each booking that getExpiredPendingBookings
\* returns it runs fail(booking): unlockSeats(booking.seatIds), then
\* updateBookingStatus(booking.id, "FAILED").  tx.n is the booking in hand.
SweepPcs == {"sw_rows", "sw_fail", "rp_rows"}

SweeperFree == \A u \in Workers : pc[u] \notin SweepPcs

\* the next booking of the list is taken and its unlockSeats UPDATE is sent
SwBegin(t, b) ==
    /\ Idle(t)
    /\ SweeperFree
    /\ b \in GetExpiredPendingBookings
    /\ pc' = [pc EXCEPT ![t] = "sw_rows"]
    /\ tx' = [tx EXCEPT ![t] =
           [IdleTx EXCEPT !.showId = bookings[b].showId,
                          !.seatIds = bookings[b].seatIds, !.n = b, !.at = now,
                          !.cand = UnlockRows(bookings[b].seatIds)]]
    /\ result' = [result EXCEPT ![t] = NoResult]
    /\ UNCHANGED <<shows, seats, bookings, rowLock, showLock, now, calls>>

\* unlockSeats visits one more row (as UsRow)
SwRow(t) ==
    /\ pc[t] = "sw_rows"
    /\ \E s \in tx[t].cand \ tx[t].got :
        /\ RowFree(t, s)
        /\ IF UnlockQual(seats[s])
           THEN /\ rowLock' = [rowLock EXCEPT ![s] = {t}]
                /\ tx' = [tx EXCEPT ![t].got = @ \cup {s}]
           ELSE /\ tx' = [tx EXCEPT ![t].cand = @ \ {s}]
                /\ UNCHANGED rowLock
    /\ UNCHANGED <<shows, seats, bookings, showLock, pc, result, now, calls>>

\* unlockSeats commits (as UsDone); updateBookingStatus is next
SwUnlocked(t) ==
    /\ pc[t] = "sw_rows"
    /\ tx[t].cand \ tx[t].got = {}
    /\ seats' = ApplyRelease(t)
    /\ rowLock' = ReleaseRows(t)
    /\ pc' = [pc EXCEPT ![t] = "sw_fail"]
    /\ tx' = [tx EXCEPT ![t].cand = {}, ![t].got = {}]
    /\ UNCHANGED <<shows, bookings, showLock, result, now, calls>>

\* updateBookingStatus(booking.id, "FAILED")
SwFail(t) ==
    /\ pc[t] = "sw_fail"
    /\ bookings' = SetBookingStatus(tx[t].n, "FAILED")
    /\ pc' = [pc EXCEPT ![t] = "idle"]
    /\ result' = [result EXCEPT ![t] =
           [Outcome("fail", "FAILED", t) EXCEPT !.count = tx[t].n]]
    /\ tx' = [tx EXCEPT ![t] = IdleTx]
    /\ UNCHANGED <<shows, seats, rowLock, showLock, now, calls>>

\* the reaper's first sweep, run by the same sweeper
SwRelease(t) == SweeperFree /\ RpBegin(t)

\* ------------------------------------------------------ POST /api/bookings
RouteOp == "POST /api/bookings"

\* shows.startTime: the shows of the model start at time 0
StartTime(id) == 0

\* bookingSchema.safeParse(req.body): a showId and an array of at least one
\* seat id
BodyOk(body) == body.wellFormed /\ Len(body.seatIds) >= 1

\* the response sent for what attemptBooking returned or threw, without the
\* branch for INVALID_SEATS
RouteStatusNoInvalid(val) ==
    CASE val = "CONFIRMED" -> 201
      [] val = "SEATS_LOCKED" -> 409
      [] val = "SEATS_UNAVAILABLE" -> 409
      [] OTHER -> 500

\* the response sent for what attemptBooking returned or threw: 201 with the
\* booking, the three messages the inner catch knows, and the outer catch
RouteStatus(val) ==
    CASE val = "CONFIRMED" -> 201
      [] val = "SEATS_LOCKED" -> 409
      [] val = "SEATS_UNAVAILABLE" -> 409
      [] val = "INVALID_SEATS" -> 400
      [] OTHER -> 500

\* res.status(code).json(...) ends the request of worker t
Respond(t, val, code, showId, seatIds) ==
    /\ result' = [result EXCEPT ![t] =
           [op |-> RouteOp, val |-> val, count |-> code,
            showId |-> showId, seatIds |-> seatIds]]
    /\ pc' = [pc EXCEPT ![t] = "idle"]
    /\ tx' = [tx EXCEPT ![t] = IdleTx]
    /\ calls' = calls + 1
    /\ UNCHANGED <<shows, seats, bookings, rowLock, showLock, now>>

\* the requests that have not reached attemptBooking or a response yet
AtShowLookup == {u \in Workers : pc[u] = "rt_show"}

\* A request arrives and its body is parsed: 400, or getShowById is sent.
RtBegin(t, body) ==
    /\ Idle(t)
    /\ result[t].op # "attemptBooking"
    /\ calls + Cardinality(AtShowLookup) < MaxCalls
    /\ IF ~BodyOk(body)
       THEN Respond(t, "INVALID_BODY", 400, body.showId, body.seatIds)
       ELSE /\ pc' = [pc EXCEPT ![t] = "rt_show"]
            /\ tx' = [tx EXCEPT ![t] =
                   [IdleTx EXCEPT !.showId = body.showId, !.seatIds = body.seatIds]]
            /\ result' = [result EXCEPT ![t] = NoResult]
            /\ UNCHANGED <<shows, seats, bookings, rowLock, showLock, now, calls>>

\* getShowById returns: 404, 400 for a show that has started, or
\* attemptBooking is called (BEGIN and the lock query).
RtGetShow(t) ==
    /\ pc[t] = "rt_show"
    /\ IF ~shows[tx[t].showId].present
       THEN Respond(t, "NOT_FOUND", 404, tx[t].showId, tx[t].seatIds)
       ELSE IF StartTime(tx[t].showId) < now
       THEN Respond(t, "PAST_SHOW", 400, tx[t].showId, tx[t].seatIds)
       ELSE BeginAttempt(t, tx[t].showId, tx[t].seatIds)

\* getShowById rejects: the outer catch answers 500
RtStoreError(t) ==
    /\ pc[t] = "rt_show"
    /\ Respond(t, "ERROR", 500, tx[t].showId, tx[t].seatIds)

\* attemptBooking has returned or thrown: the response is sent
RtRespond(t) ==
    /\ pc[t] = "idle"
    /\ result[t].op = "attemptBooking"
    /\ result' = [result EXCEPT ![t] =
           [result[t] EXCEPT !.op = RouteOp, !.count = RouteStatus(result[t].val)]]
    /\ UNCHANGED <<shows, seats, bookings, rowLock, showLock, pc, tx, now, calls>>

\* ------------------------------------------ pollBookingStatus (the client)
\* tx.n is `attempts`, result is currentBooking: val its status, count its id
MaxAttempts == 30

PollOp == "pollBookingStatus"

\* GET /api/bookings/:id answers with the booking row, or 404
GetBooking(id) ==
    IF id \in DOMAIN bookings
    THEN [ok |-> TRUE, status |-> bookings[id].status]
    ELSE [ok |-> FALSE, status |-> "none"]

\* onSuccess: setCurrentBooking(booking) for a PENDING booking, then
\* pollBookingStatus(booking.id) sets the first timer (once for each client)
PollStart(t, id) ==
    /\ Idle(t)
    /\ result[t].op # PollOp
    /\ id \in DOMAIN bookings
    /\ bookings[id].status = "PENDING"
    /\ pc' = [pc EXCEPT ![t] = "poll_timer"]
    /\ tx' = [tx EXCEPT ![t] = IdleTx]
    /\ result' = [result EXCEPT ![t] =
           [NoResult EXCEPT !.op = PollOp, !.val = "PENDING", !.count = id]]
    /\ UNCHANGED <<shows, seats, bookings, rowLock, showLock, now, calls>>

\* poll() with attempts >= maxAttempts: the booking is shown FAILED
PollGiveUp(t) ==
    /\ pc[t] = "poll_timer"
    /\ tx[t].n >= MaxAttempts
    /\ result' = [result EXCEPT ![t].val = "FAILED"]
    /\ pc' = [pc EXCEPT ![t] = "idle"]
    /\ tx' = [tx EXCEPT ![t] = IdleTx]
    /\ UNCHANGED <<shows, seats, bookings, rowLock, showLock, now, calls>>

\* poll(): the fetch answers; response.ok with the booking sets the booking
\* shown and, while it is PENDING, counts the attempt and sets the next
\* timer; a response that is not ok is followed by nothing
PollFetch(t) ==
    /\ pc[t] = "poll_timer"
    /\ tx[t].n < MaxAttempts
    /\ LET answer == GetBooking(result[t].count) IN
        IF answer.ok
        THEN /\ result' = [result EXCEPT ![t].val = answer.status]
             /\ IF answer.status = "PENDING"
                THEN /\ tx' = [tx EXCEPT ![t].n = @ + 1]
                     /\ UNCHANGED pc
                ELSE /\ tx' = [tx EXCEPT ![t] = IdleTx]
                     /\ pc' = [pc EXCEPT ![t] = "idle"]
        ELSE /\ tx' = [tx EXCEPT ![t] = IdleTx]
             /\ pc' = [pc EXCEPT ![t] = "idle"]
             /\ UNCHANGED result
    /\ UNCHANGED <<shows, seats, bookings, rowLock, showLock, now, calls>>

\* poll(): getBookingById rejects and the route answers 500, a response that
\* is not ok
PollNotOk(t) ==
    /\ pc[t] = "poll_timer"
    /\ tx[t].n < MaxAttempts
    /\ tx' = [tx EXCEPT ![t] = IdleTx]
    /\ pc' = [pc EXCEPT ![t] = "idle"]
    /\ UNCHANGED <<shows, seats, bookings, rowLock, showLock, result, now, calls>>

\* poll(): fetch or response.json() throws; the catch counts the attempt and
\* sets the next timer
PollThrow(t) ==
    /\ pc[t] = "poll_timer"
    /\ tx[t].n < MaxAttempts
    /\ tx' = [tx EXCEPT ![t].n = @ + 1]
    /\ UNCHANGED <<shows, seats, bookings, rowLock, showLock, pc, result, now, calls>>

\* ------------------------------------------------------------------- clock
Tick ==
    /\ now < MaxTime
    /\ now' = now + 1
    /\ UNCHANGED <<shows, seats, bookings, rowLock, showLock, pc, tx, result, calls>>

\* ----------------------------------------------------------- specification
Init ==
    /\ shows = [i \in ShowIds |->
                   IF i = FirstShow
                   THEN [present |-> TRUE, totalSeats |-> Cardinality(FirstSeats),
                         availableSeats |-> Cardinality(FirstSeats)]
                   ELSE NoShow]
    /\ seats = [s \in SeatIds |->
                   IF s \in FirstSeats
                   THEN [present |-> TRUE, showId |-> FirstShow, seatNumber |-> s,
                         status |-> "AVAILABLE", lockedUntil |-> NULL]
                   ELSE NoSeat]
    /\ bookings = <<>>
    /\ rowLock = [s \in SeatIds |-> {}]
    /\ showLock = [i \in ShowIds |-> {}]
    /\ pc = [t \in Workers |-> "idle"]
    /\ tx = [t \in Workers |-> IdleTx]
    /\ result = [t \in Workers |-> NoResult]
    /\ now = 0
    /\ calls = 0

Next ==
    \/ \E t \in Workers, total \in TotalSeatsGiven : CsInsertShow(t, total)
    \/ \E t \in Workers : CsCreateSeats(t)
    \/ \E t \in Workers, id \in ShowIds, ids \in SeatIdLists : AbBegin(t, id, ids)
    \/ \E t \in Workers : AbLockRow(t)
    \/ \E t \in Workers : AbLockFail(t)
    \/ \E t \in Workers : AbLockDone(t)
    \/ \E t \in Workers : AbUpdateSeats(t)
    \/ \E t \in Workers : AbUpdateShow(t)
    \/ \E t \in Workers : AbInsert(t)
    \/ \E t \in Workers : AbCommit(t)
    \/ \E t \in Workers : AbStoreError(t)
    \/ \E t \in Workers, ids \in SeatIdLists, until \in Times : LsBegin(t, ids, until)
    \/ \E t \in Workers : LsLockRow(t)
    \/ \E t \in Workers : LsLockFail(t)
    \/ \E t \in Workers : LsLockDone(t)
    \/ \E t \in Workers : LsUpdate(t)
    \/ \E t \in Workers : LsCommit(t)
    \/ \E t \in Workers : RpBegin(t)
    \/ \E t \in Workers : RpRow(t)
    \/ \E t \in Workers : RpDone(t)
    \/ Tick

Spec == Init /\ [][Next]_vars

\* ------------------------------------------------- the overlap scenario
\* A show with three AVAILABLE seats; request A (worker 1) books seats 1, 2
\* and request B (worker 2) books seats 2, 3, once each, on a working store.
OverlapRequest(t) == IF t = 1 THEN <<1, 2>> ELSE <<2, 3>>

OvInit ==
    /\ shows = [i \in ShowIds |->
                   IF i = FirstShow
                   THEN [present |-> TRUE, totalSeats |-> Cardinality(SeatIds),
                         availableSeats |-> Cardinality(SeatIds)]
                   ELSE NoShow]
    /\ seats = [s \in SeatIds |->
                   [present |-> TRUE, showId |-> FirstShow, seatNumber |-> s,
                    status |-> "AVAILABLE", lockedUntil |-> NULL]]
    /\ bookings = <<>>
    /\ rowLock = [s \in SeatIds |-> {}]
    /\ showLock = [i \in ShowIds |-> {}]
    /\ pc = [t \in Workers |-> "idle"]
    /\ tx = [t \in Workers |-> IdleTx]
    /\ result = [t \in Workers |-> NoResult]
    /\ now = 0
    /\ calls = 0

OvBegin(t) ==
    /\ pc[t] = "idle"
    /\ result[t] = NoResult
    /\ RouteAccepts(FirstShow, OverlapRequest(t))
    /\ BeginAttempt(t, FirstShow, OverlapRequest(t))

OvNext ==
    \/ \E t \in Workers : OvBegin(t)
    \/ \E t \in Workers : AbLockRow(t)
    \/ \E t \in Workers : AbLockFail(t)
    \/ \E t \in Workers : AbLockDone(t)
    \/ \E t \in Workers : AbUpdateSeats(t)
    \/ \E t \in Workers : AbUpdateShow(t)
    \/ \E t \in Workers : AbInsert(t)
    \/ \E t \in Workers : AbCommit(t)
    \/ Tick

SpecOverlap == OvInit /\ [][OvNext]_vars

\* ------------------------------------- concurrent bookings and holds, fair
\* attemptBooking and lockSeats calls on seats of one show, their seatIds
\* arrays in any order and each hold ending at the time it is taken, on a
\* working store whose transactions are each scheduled fairly.
AnyOrderLists == SeqsOfLengths(FirstSeats, ListLengths \ {0})

\* the statements of worker t's open transaction
TxStep(t) ==
    \/ AbLockRow(t) \/ AbLockFail(t) \/ AbLockDone(t)
    \/ AbUpdateSeats(t) \/ AbUpdateShow(t) \/ AbInsert(t) \/ AbCommit(t)
    \/ LsLockRow(t) \/ LsLockFail(t) \/ LsLockDone(t)
    \/ LsUpdate(t) \/ LsCommit(t)

FairNext ==
    \/ \E t \in Workers, ids \in AnyOrderLists : AbBegin(t, FirstShow, ids)
    \/ \E t \in Workers, ids \in AnyOrderLists : LsBegin(t, ids, now)
    \/ \E t \in Workers : AbLockRow(t)
    \/ \E t \in Workers : AbLockFail(t)
    \/ \E t \in Workers : AbLockDone(t)
    \/ \E t \in Workers : AbUpdateSeats(t)
    \/ \E t \in Workers : AbUpdateShow(t)
    \/ \E t \in Workers : AbInsert(t)
    \/ \E t \in Workers : AbCommit(t)
    \/ \E t \in Workers : LsLockRow(t)
    \/ \E t \in Workers : LsLockFail(t)
    \/ \E t \in Workers : LsLockDone(t)
    \/ \E t \in Workers : LsUpdate(t)
    \/ \E t \in Workers : LsCommit(t)
    \/ Tick

SpecFair ==
    /\ OvInit
    /\ [][FairNext]_vars
    /\ \A t \in Workers : WF_vars(TxStep(t))

\* ------------------------------------------ the storage operations, deferred
\* The operations of IStorage the deferred mode is built on, called in any
\* order next to attemptBooking, on the rows of the first show.
DfLists == {q \in SeatIdLists : q # <<>> /\ Range(q) \subseteq FirstSeats
                                  /\ Cardinality(Range(q)) = Len(q)}

BookingLists == {q \in SeatIdLists : Len(q) <= 1}

BookingIds == 1..MaxCalls

Deltas == {-1, 1}

DfNext ==
    \/ \E t \in Workers, total \in TotalSeatsGiven : CsInsertShow(t, total)
    \/ \E t \in Workers : CsCreateSeats(t)
    \/ \E t \in Workers, ids \in DfLists : AbBegin(t, FirstShow, ids)
    \/ \E t \in Workers : AbLockRow(t)
    \/ \E t \in Workers : AbLockFail(t)
    \/ \E t \in Workers : AbLockDone(t)
    \/ \E t \in Workers : AbUpdateSeats(t)
    \/ \E t \in Workers : AbUpdateShow(t)
    \/ \E t \in Workers : AbInsert(t)
    \/ \E t \in Workers : AbCommit(t)
    \/ \E t \in Workers, ids \in DfLists, until \in Times : LsBegin(t, ids, until)
    \/ \E t \in Workers : LsLockRow(t)
    \/ \E t \in Workers : LsLockFail(t)
    \/ \E t \in Workers : LsLockDone(t)
    \/ \E t \in Workers : LsUpdate(t)
    \/ \E t \in Workers : LsCommit(t)
    \/ \E t \in Workers : RpBegin(t)
    \/ \E t \in Workers : RpRow(t)
    \/ \E t \in Workers : RpDone(t)
    \/ \E t \in Workers, ids \in DfLists : UsBegin(t, ids)
    \/ \E t \in Workers : UsRow(t)
    \/ \E t \in Workers : UsDone(t)
    \/ \E t \in Workers, ids \in DfLists : MbBegin(t, ids)
    \/ \E t \in Workers : MbRow(t)
    \/ \E t \in Workers : MbDone(t)
    \/ \E t \in Workers, d \in Deltas : UpdateShowAvailableSeats(t, FirstShow, d)
    \/ \E t \in Workers, id \in ShowIds, ids \in BookingLists : CreateBooking(t, id, ids)
    \/ \E t \in Workers, id \in BookingIds, st \in BookingStatuses :
          UpdateBookingStatus(t, id, st)
    \/ Tick

SpecDeferred == Init /\ [][DfNext]_vars

\* ------------------------------------------------- the reaper, deferred mode
\* The first show with seat 1 held until time 0 and a PENDING booking of it
\* whose deadline is time 0 (a lockSeats and a createBooking of the past);
\* holds (each ending at the time it is taken) and pending bookings keep
\* arriving while the sweeper runs.
SweepInit ==
    /\ shows = [i \in ShowIds |->
                   IF i = FirstShow
                   THEN [present |-> TRUE, totalSeats |-> Cardinality(FirstSeats),
                         availableSeats |-> Cardinality(FirstSeats)]
                   ELSE NoShow]
    /\ seats = [s \in SeatIds |->
                   IF s \in FirstSeats
                   THEN [present |-> TRUE, showId |-> FirstShow, seatNumber |-> s,
                         status |-> IF s = 1 THEN "PENDING" ELSE "AVAILABLE",
                         lockedUntil |-> IF s = 1 THEN 0 ELSE NULL]
                   ELSE NoSeat]
    /\ bookings = <<[showId |-> FirstShow, seatIds |-> <<1>>,
                     status |-> "PENDING", expiresAt |-> 0]>>
    /\ rowLock = [s \in SeatIds |-> {}]
    /\ showLock = [i \in ShowIds |-> {}]
    /\ pc = [t \in Workers |-> "idle"]
    /\ tx = [t \in Workers |-> IdleTx]
    /\ result = [t \in Workers |-> NoResult]
    /\ now = 0
    /\ calls = 0

\* the ids of the bookings there can be
SweepIds == 1..(MaxCalls + 1)

\* the statements of the call worker t has in flight
SweepStep(t) ==
    \/ \E b \in SweepIds : SwBegin(t, b)
    \/ SwRow(t) \/ SwUnlocked(t) \/ SwFail(t)
    \/ RpRow(t) \/ RpDone(t)
    \/ LsLockRow(t) \/ LsLockFail(t) \/ LsLockDone(t) \/ LsUpdate(t) \/ LsCommit(t)

SweepNext ==
    \/ \E t \in Workers, b \in SweepIds : SwBegin(t, b)
    \/ \E t \in Workers : SwRow(t)
    \/ \E t \in Workers : SwUnlocked(t)
    \/ \E t \in Workers : SwFail(t)
    \/ \E t \in Workers : SwRelease(t)
    \/ \E t \in Workers : RpRow(t)
    \/ \E t \in Workers : RpDone(t)
    \/ \E t \in Workers, ids \in DfLists : CreateBooking(t, FirstShow, ids)
    \/ \E t \in Workers, ids \in DfLists : LsBegin(t, ids, now)
    \/ \E t \in Workers : LsLockRow(t)
    \/ \E t \in Workers : LsLockFail(t)
    \/ \E t \in Workers : LsLockDone(t)
    \/ \E t \in Workers : LsUpdate(t)
    \/ \E t \in Workers : LsCommit(t)
    \/ Tick

SpecSweep ==
    /\ SweepInit
    /\ [][SweepNext]_vars
    /\ \A t \in Workers : WF_vars(SweepStep(t))

\* ------------------------------------------- requests to POST /api/bookings
\* the bodies sent: a show id with a seat list, or something the schema
\* rejects
RouteLists == DfLists \cup {<<>>, <<3>>}

Bodies ==
    {[wellFormed |-> TRUE, showId |-> i, seatIds |-> q] : i \in ShowIds, q \in RouteLists}
    \cup {[wellFormed |-> FALSE, showId |-> FirstShow, seatIds |-> <<1>>]}

\* the steps of the request worker t handles
RtStep(t) ==
    \/ RtGetShow(t) \/ RtStoreError(t) \/ RtRespond(t)
    \/ AbLockRow(t) \/ AbLockFail(t) \/ AbLockDone(t)
    \/ AbUpdateSeats(t) \/ AbUpdateShow(t) \/ AbInsert(t) \/ AbCommit(t)
    \/ AbStoreError(t)

RouteNext ==
    \/ \E t \in Workers, body \in Bodies : RtBegin(t, body)
    \/ \E t \in Workers : RtGetShow(t)
    \/ \E t \in Workers : RtStoreError(t)
    \/ \E t \in Workers : RtRespond(t)
    \/ \E t \in Workers : AbLockRow(t)
    \/ \E t \in Workers : AbLockFail(t)
    \/ \E t \in Workers : AbLockDone(t)
    \/ \E t \in Workers : AbUpdateSeats(t)
    \/ \E t \in Workers : AbUpdateShow(t)
    \/ \E t \in Workers : AbInsert(t)
    \/ \E t \in Workers : AbCommit(t)
    \/ \E t \in Workers : AbStoreError(t)
    \/ Tick

SpecRoute ==
    /\ Init
    /\ [][RouteNext]_vars
    /\ \A t \in Workers : WF_vars(RtStep(t))

\* --------------------------------------------------- a client that polls
\* Clients poll the PENDING bookings while the server's updateBookingStatus
\* calls change them; every timer that is set fires.
PollStep(t) == PollGiveUp(t) \/ PollFetch(t) \/ PollNotOk(t) \/ PollThrow(t)

PollNext ==
    \/ \E t \in Workers, id \in SweepIds : PollStart(t, id)
    \/ \E t \in Workers : PollGiveUp(t)
    \/ \E t \in Workers : PollFetch(t)
    \/ \E t \in Workers : PollNotOk(t)
    \/ \E t \in Workers : PollThrow(t)
    \/ \E t \in Workers, id \in SweepIds, st \in BookingStatuses :
          UpdateBookingStatus(t, id, st)

SpecPoll ==
    /\ SweepInit
    /\ [][PollNext]_vars
    /\ \A t \in Workers : WF_vars(PollStep(t))

\* ----------------------------------------- the writers of seats, in a race
\* attemptBooking, lockSeats, unlockSeats, releaseExpiredLocks and
\* markSeatsAsBooked called in any order and interleaving on the seats of the
\* first show, seat 1 being held until time 0 when they start.
RaceNext ==
    \/ \E t \in Workers, ids \in DfLists : AbBegin(t, FirstShow, ids)
    \/ \E t \in Workers : AbLockRow(t)
    \/ \E t \in Workers : AbLockFail(t)
    \/ \E t \in Workers : AbLockDone(t)
    \/ \E t \in Workers : AbUpdateSeats(t)
    \/ \E t \in Workers : AbUpdateShow(t)
    \/ \E t \in Workers : AbInsert(t)
    \/ \E t \in Workers : AbCommit(t)
    \/ \E t \in Workers, ids \in DfLists, until \in Times : LsBegin(t, ids, until)
    \/ \E t \in Workers : LsLockRow(t)
    \/ \E t \in Workers : LsLockFail(t)
    \/ \E t \in Workers : LsLockDone(t)
    \/ \E t \in Workers : LsUpdate(t)
    \/ \E t \in Workers : LsCommit(t)
    \/ \E t \in Workers : RpBegin(t)
    \/ \E t \in Workers : RpRow(t)
    \/ \E t \in Workers : RpDone(t)
    \/ \E t \in Workers, ids \in DfLists : UsBegin(t, ids)
    \/ \E t \in Workers : UsRow(t)
    \/ \E t \in Workers : UsDone(t)
    \/ \E t \in Workers, ids \in DfLists : MbBegin(t, ids)
    \/ \E t \in Workers : MbRow(t)
    \/ \E t \in Workers : MbDone(t)
    \/ Tick

SpecRace == SweepInit /\ [][RaceNext]_vars

\* ------------------------------------- one client repeating one operation
\* A single client, with nothing else running, calls unlockSeats on one seat
\* list again and again, or runs the reaper (releaseExpiredLocks, then fail
\* for each booking of getExpiredPendingBookings) again and again, without
\* the clock moving between the runs.  It starts from any seat table the
\* operations above can leave for the first show.
SeatStates ==
    {[status |-> "AVAILABLE", lockedUntil |-> NULL],
     [status |-> "BOOKED", lockedUntil |-> NULL]}
    \cup {[status |-> "PENDING", lockedUntil |-> u] : u \in Times}

\* no booking, or a PENDING booking of seat 1
StartBookings ==
    {<<>>} \cup {<<[showId |-> FirstShow, seatIds |-> <<1>>,
                    status |-> "PENDING", expiresAt |-> e]>> : e \in Times}

RepeatInit ==
    /\ \E f \in [FirstSeats -> SeatStates] :
        /\ seats = [s \in SeatIds |->
                       IF s \in FirstSeats
                       THEN [present |-> TRUE, showId |-> FirstShow, seatNumber |-> s,
                             status |-> f[s].status, lockedUntil |-> f[s].lockedUntil]
                       ELSE NoSeat]
        /\ shows = [i \in ShowIds |->
                       IF i = FirstShow
                       THEN [present |-> TRUE, totalSeats |-> Cardinality(FirstSeats),
                             availableSeats |-> Cardinality(FirstSeats) -
                                 Cardinality({s \in FirstSeats : f[s].status = "BOOKED"})]
                       ELSE NoShow]
    /\ bookings \in StartBookings
    /\ rowLock = [s \in SeatIds |-> {}]
    /\ showLock = [i \in ShowIds |-> {}]
    /\ pc = [t \in Workers |-> "idle"]
    /\ tx = [t \in Workers |-> IdleTx]
    /\ result = [t \in Workers |-> NoResult]
    /\ now \in Times
    /\ calls = 0

\* the operations that make up a run of the reaper
ReaperOps == {"releaseExpiredLocks", "fail"}

\* unlockSeats(seatIds), and again with the same list
RepUnlock(t, seatIds) ==
    /\ calls = 0 \/ (result[t].op = "unlockSeats" /\ result[t].seatIds = seatIds)
    /\ UsBegin(t, seatIds)

\* a run of the reaper starts with releaseExpiredLocks; the run before it
\* has failed every booking of its list
RepRelease(t) ==
    /\ calls = 0 \/ (result[t].op \in ReaperOps /\ GetExpiredPendingBookings = {})
    /\ RpBegin(t)

\* ... and goes on with fail(booking) for the bookings of its list
RepFail(t, b) ==
    /\ result[t].op \in ReaperOps
    /\ SwBegin(t, b)

RepeatNext ==
    \/ \E t \in Workers, ids \in DfLists : RepUnlock(t, ids)
    \/ \E t \in Workers : UsRow(t)
    \/ \E t \in Workers : UsDone(t)
    \/ \E t \in Workers : RepRelease(t)
    \/ \E t \in Workers : RpRow(t)
    \/ \E t \in Workers : RpDone(t)
    \/ \E t \in Workers, b \in SweepIds : RepFail(t, b)
    \/ \E t \in Workers : SwRow(t)
    \/ \E t \in Workers : SwUnlocked(t)
    \/ \E t \in Workers : SwFail(t)

SpecRepeat == RepeatInit /\ [][RepeatNext]_vars

\* ================================================================== claims
AbPcs == {"ab_lock", "ab_seats", "ab_show", "ab_insert", "ab_commit"}

AbErrors == {"SEATS_LOCKED", "INVALID_SEATS", "SEATS_UNAVAILABLE"}

\* worker t takes the step
Moves(t) == pc'[t] # pc[t] \/ tx'[t] # tx[t]

Confirmed == {i \in DOMAIN bookings : bookings[i].status = "CONFIRMED"}

NoDup(q) == \A i, j \in DOMAIN q : i # j => q[i] # q[j]

BookedSeats(id) ==
    {s \in SeatIds : seats[s].present /\ seats[s].showId = id /\ seats[s].status = "BOOKED"}

RECURSIVE ConfirmedSeatCount(_, _)
\* the seats in the seat lists of the CONFIRMED bookings 1..n of show id
ConfirmedSeatCount(id, n) ==
    IF n = 0 THEN 0
    ELSE ConfirmedSeatCount(id, n - 1) +
         (IF bookings[n].showId = id /\ bookings[n].status = "CONFIRMED"
          THEN Len(bookings[n].seatIds) ELSE 0)

ExpiredHold(seat, t) ==
    seat.status = "PENDING" /\ seat.lockedUntil # NULL /\ seat.lockedUntil < t

\* C1: no seat is in the seat list of two CONFIRMED bookings, nor twice in
\* the seat list of one.
C1_MutualExclusion ==
    \A i \in Confirmed :
        /\ NoDup(bookings[i].seatIds)
        /\ \A j \in Confirmed :
              i # j => Range(bookings[i].seatIds) \cap Range(bookings[j].seatIds) = {}

\* two attemptBooking calls on intersecting seat lists of one show were in
\* flight together: one is CONFIRMED, the other met its row lock
C1_Witness ==
    \E t, u \in Workers :
        /\ t # u
        /\ result[t].op = "attemptBooking" /\ result[t].val = "CONFIRMED"
        /\ result[u].op = "attemptBooking" /\ result[u].val = "SEATS_LOCKED"
        /\ result[t].showId = result[u].showId
        /\ Range(result[t].seatIds) \cap Range(result[u].seatIds) # {}

\* C2: in every committed state each show has
\* availableSeats = totalSeats - (number of its BOOKED seats).
C2_CounterInvariant ==
    \A id \in ShowIds :
        shows[id].present =>
            shows[id].availableSeats = shows[id].totalSeats - Cardinality(BookedSeats(id))

\* a show was created and a booking of two seats was committed
C2_Witness ==
    /\ shows[SecondShow].present
    /\ Cardinality(BookedSeats(FirstShow)) = 2

\* C3: a step of an attemptBooking call changes the committed seats, shows
\* and bookings only if it is the commit that returns the CONFIRMED booking;
\* so a call that ends with an error has changed nothing.
C3_AllOrNothing ==
    [][\A t \in Workers :
          (/\ pc[t] \in AbPcs
           /\ Moves(t)
           /\ ~(pc'[t] = "idle" /\ result'[t].val = "CONFIRMED"))
          => UNCHANGED <<shows, seats, bookings>>]_vars

\* a call was failed by the store after its lock query, and nothing of it shows
C3_Witness ==
    \E t \in Workers :
        /\ result[t].op = "attemptBooking" /\ result[t].val = "ERROR"
        /\ bookings = <<>>
        /\ \A s \in Range(result[t].seatIds) : seats[s].status = "AVAILABLE"
        /\ shows[result[t].showId].availableSeats = shows[result[t].showId].totalSeats

\* the committed state never shows part of a booking: the seats of every
\* CONFIRMED booking are BOOKED, every BOOKED seat is in a CONFIRMED booking
\* of its show, and the counter has been decremented for exactly these
AtomicallyVisible ==
    /\ \A i \in Confirmed : \A s \in Range(bookings[i].seatIds) :
          seats[s].status = "BOOKED"
    /\ \A s \in SeatIds :
          seats[s].status = "BOOKED" =>
              \E i \in Confirmed : /\ s \in Range(bookings[i].seatIds)
                                   /\ bookings[i].showId = seats[s].showId
    /\ \A id \in ShowIds :
          shows[id].present =>
              shows[id].availableSeats =
                  shows[id].totalSeats - ConfirmedSeatCount(id, Len(bookings))

\* C4 (as stated): every call returns a CONFIRMED booking or one of the
\* three errors, and no committed state shows part of a booking.
C4_Original ==
    /\ AtomicallyVisible
    /\ \A t \in Workers :
          result[t].op = "attemptBooking" =>
              result[t].val \in {"CONFIRMED"} \cup AbErrors

\* C4 (amended): every call returns a CONFIRMED booking, one of the three
\* errors, or rethrows the error of a statement the store failed after the
\* lock query; and no committed state shows part of a booking.
C4_AtomicVisibility ==
    /\ AtomicallyVisible
    /\ \A t \in Workers :
          result[t].op = "attemptBooking" =>
              result[t].val \in {"CONFIRMED", "ERROR"} \cup AbErrors

\* a transaction holds its seat and counter updates, uncommitted, while the
\* committed rows still read as before
C4_Witness ==
    \E t \in Workers :
        /\ pc[t] = "ab_commit"
        /\ tx[t].wseats # {}
        /\ tx[t].wavail # shows[tx[t].showId].availableSeats
        /\ \A s \in tx[t].wseats : seats[s].status # "BOOKED"

\* C5: in the overlap scenario, once both requests have returned, exactly
\* one holds a CONFIRMED booking, the other got SEATS_UNAVAILABLE or
\* SEATS_LOCKED, availableSeats is 1, the winner's seats are BOOKED and the
\* third seat is still AVAILABLE.
C5_OverlapScenario ==
    (\A t \in Workers : pc[t] = "idle" /\ result[t] # NoResult) =>
        \E w, l \in Workers :
            /\ w # l
            /\ result[w].val = "CONFIRMED"
            /\ result[l].val \in {"SEATS_UNAVAILABLE", "SEATS_LOCKED"}
            /\ Len(bookings) = 1
            /\ shows[FirstShow].availableSeats = 1
            /\ \A s \in SeatIds :
                  IF s \in Range(OverlapRequest(w))
                  THEN seats[s].status = "BOOKED"
                  ELSE seats[s].status = "AVAILABLE" /\ seats[s].lockedUntil = NULL

\* both requests have returned, the loser having met the winner's row lock
C5_Witness ==
    /\ \A t \in Workers : pc[t] = "idle" /\ result[t] # NoResult
    /\ \E l \in Workers : result[l].val = "SEATS_LOCKED"

\* C6: the counter of a show is its initial value (totalSeats) less the
\* number of seats in the seat lists of the calls that returned CONFIRMED.
C6_NoLostUpdate ==
    \A id \in ShowIds :
        shows[id].present =>
            shows[id].availableSeats =
                shows[id].totalSeats - ConfirmedSeatCount(id, Len(bookings))

\* two calls on disjoint seats of one show were in flight together and both
\* returned CONFIRMED
C6_Witness ==
    /\ Len(bookings) = 2
    /\ bookings[1].showId = bookings[2].showId
    /\ \A t \in Workers : result[t].op = "attemptBooking" /\ result[t].val = "CONFIRMED"

\* the lock query of worker t's attemptBooking returns in this step
AbLockReturns(t) ==
    /\ pc[t] = "ab_lock"
    /\ pc'[t] # "ab_lock"
    /\ tx[t].cand \ tx[t].got = {}

\* the commit of worker t's attemptBooking
AbCommits(t) == pc[t] = "ab_commit" /\ pc'[t] = "idle" /\ result'[t].val = "CONFIRMED"

\* C7: an attemptBooking whose lock query has a targeted row locked by
\* another open transaction is never made to wait (it always has a step),
\* cannot get past the lock query while that lock is held, and leaves it
\* only with SEATS_LOCKED and the committed state unchanged.
C7_FailFast ==
    /\ [](\A t \in Workers :
            pc[t] = "ab_lock" =>
                ENABLED (AbLockRow(t) \/ AbLockFail(t) \/ AbLockDone(t)))
    /\ [][\A t \in Workers :
            (/\ pc[t] = "ab_lock"
             /\ \E s \in tx[t].cand \ tx[t].got : ~RowFree(t, s)
             /\ pc'[t] # "ab_lock")
            => /\ pc'[t] = "idle"
               /\ result'[t].val = "SEATS_LOCKED"
               /\ UNCHANGED <<shows, seats, bookings>>]_vars

\* a call got SEATS_LOCKED while the transaction holding the row of one of
\* its seats is still open
C7_Witness ==
    \E t, u \in Workers :
        /\ result[t].op = "attemptBooking" /\ result[t].val = "SEATS_LOCKED"
        /\ pc[t] = "idle"
        /\ pc[u] \in AbPcs
        /\ \E s \in Range(result[t].seatIds) : rowLock[s] = {u}

\* C8: a PENDING seat whose lockedUntil has passed counts as free.  When the
\* lock query of attemptBooking returns every requested seat and each is
\* AVAILABLE or an expired hold, the call goes on to book them; the lock
\* query of lockSeats selects the expired holds among its seats, keeps them
\* when it locks them, goes on when it got every requested seat, and its
\* commit leaves them PENDING with the new expiry.
C8_LeaseExpiry ==
    [][\A t \in Workers :
          /\ (/\ AbLockReturns(t)
              /\ Cardinality(tx[t].got) = Len(tx[t].seatIds)
              /\ \A s \in tx[t].got :
                    seats[s].status = "AVAILABLE" \/ ExpiredHold(seats[s], now))
             => pc'[t] = "ab_seats"
          /\ AbCommits(t)
             => \A s \in Range(tx[t].seatIds) : seats'[s].status = "BOOKED"
          /\ (pc[t] = "idle" /\ pc'[t] = "ls_lock")
             => \A s \in Range(tx'[t].seatIds) :
                   (seats[s].present /\ ExpiredHold(seats[s], now))
                       => s \in tx'[t].cand
          /\ (pc[t] = "ls_lock" /\ pc'[t] = "ls_lock")
             => \A s \in tx[t].cand \ tx'[t].cand :
                   ~(seats[s].status = "AVAILABLE" \/ ExpiredHold(seats[s], tx[t].at))
          /\ (/\ pc[t] = "ls_lock"
              /\ pc'[t] # "ls_lock"
              /\ tx[t].cand \ tx[t].got = {}
              /\ Cardinality(tx[t].got) = Len(tx[t].seatIds))
             => pc'[t] = "ls_update"
          /\ (pc[t] = "ls_commit" /\ pc'[t] = "idle")
             => \A s \in Range(tx[t].seatIds) :
                   /\ seats'[s].status = "PENDING"
                   /\ seats'[s].lockedUntil = tx[t].until]_vars

\* an attemptBooking is about to commit the booking of a seat that is still
\* PENDING with a lockedUntil in the past (the reaper has not reset it)
C8_Witness ==
    \E t \in Workers :
        /\ pc[t] = "ab_commit"
        /\ \E s \in tx[t].wseats : ExpiredHold(seats[s], now)

\* C9: when the lock query returns every requested seat (all exist in the
\* show, none is locked by another transaction) and one of them is BOOKED or
\* PENDING with a lockedUntil that has not passed, the call ends with
\* SEATS_UNAVAILABLE and changes nothing; and a commit changes only seats
\* that were AVAILABLE or expired holds.
C9_Unavailable ==
    [][\A t \in Workers :
          /\ (/\ AbLockReturns(t)
              /\ Cardinality(tx[t].got) = Len(tx[t].seatIds)
              /\ \E s \in tx[t].got :
                    \/ seats[s].status = "BOOKED"
                    \/ seats[s].status = "PENDING" /\ ~ExpiredHold(seats[s], now))
             => /\ pc'[t] = "idle"
                /\ result'[t].val = "SEATS_UNAVAILABLE"
                /\ UNCHANGED <<shows, seats, bookings>>
          /\ AbCommits(t)
             => \A s \in SeatIds :
                   seats'[s] # seats[s]
                       => seats[s].status = "AVAILABLE" \/ ExpiredHold(seats[s], now)]_vars

\* a call got SEATS_UNAVAILABLE for a seat under a hold that has not expired
C9_Witness ==
    \E t \in Workers :
        /\ result[t].op = "attemptBooking" /\ result[t].val = "SEATS_UNAVAILABLE"
        /\ \E s \in Range(result[t].seatIds) :
              seats[s].status = "PENDING" /\ ~ExpiredHold(seats[s], now)

\* a requested seat id that does not exist or belongs to another show
InvalidSeat(t) ==
    \E id \in Range(tx[t].seatIds) :
        ~seats[id].present \/ seats[id].showId # tx[t].showId

\* C10 (as stated): a call with a seat id that does not exist or belongs to
\* another show ends with INVALID_SEATS and changes nothing.
C10_Original ==
    [][\A t \in Workers :
          (pc[t] \in AbPcs /\ pc'[t] = "idle" /\ InvalidSeat(t))
          => /\ result'[t].val = "INVALID_SEATS"
             /\ UNCHANGED <<shows, seats, bookings>>]_vars

\* C10 (amended): such a call ends with INVALID_SEATS when its lock query
\* returns, or with SEATS_LOCKED when the lock query meets a requested seat
\* whose row another transaction holds; either way it changes nothing, and a
\* commit changes only seats of the show it was given.
C10_InvalidSeats ==
    [][\A t \in Workers :
          /\ (AbLockReturns(t) /\ InvalidSeat(t))
             => /\ pc'[t] = "idle"
                /\ result'[t].val = "INVALID_SEATS"
                /\ UNCHANGED <<shows, seats, bookings>>
          /\ (pc[t] \in AbPcs /\ pc'[t] = "idle" /\ InvalidSeat(t))
             => /\ result'[t].val \in {"INVALID_SEATS", "SEATS_LOCKED"}
                /\ UNCHANGED <<shows, seats, bookings>>
          /\ AbCommits(t)
             => \A s \in SeatIds :
                   seats'[s] # seats[s] => seats[s].showId = tx[t].showId]_vars

\* a call that named a seat of another show got INVALID_SEATS, and that seat
\* is still AVAILABLE
C10_Witness ==
    \E t \in Workers :
        /\ result[t].op = "attemptBooking" /\ result[t].val = "INVALID_SEATS"
        /\ \E id \in Range(result[t].seatIds) :
              /\ seats[id].present
              /\ seats[id].showId # result[t].showId
              /\ seats[id].status = "AVAILABLE"

\* the next statement of worker t's attemptBooking can run now
AbStepEnabled(t) ==
    \/ pc[t] = "ab_lock" /\
          ENABLED (AbLockRow(t) \/ AbLockFail(t) \/ AbLockDone(t))
    \/ pc[t] = "ab_seats" /\ ENABLED AbUpdateSeats(t)
    \/ pc[t] = "ab_show" /\ ENABLED AbUpdateShow(t)
    \/ pc[t] = "ab_insert" /\ ENABLED AbInsert(t)
    \/ pc[t] = "ab_commit" /\ ENABLED AbCommit(t)

C12_DeadlockFree ==
    /\ []((\E t \in Workers : pc[t] # "idle")
            => \E t \in Workers : ENABLED TxStep(t))
    /\ \A t \in Workers :
          (pc[t] # "idle") ~>
              (/\ pc[t] = "idle"
               /\ result[t].val \in {"CONFIRMED", "TRUE", "FALSE"} \cup AbErrors)

\* a booking and a hold, their lists naming the same two seats in opposite
\* orders, each hold the row the other has yet to lock
C12_Witness ==
    \E t, u \in Workers :
        /\ pc[t] = "ab_lock" /\ pc[u] = "ls_lock"
        /\ Len(tx[t].seatIds) = 2 /\ Len(tx[u].seatIds) = 2
        /\ tx[t].seatIds[1] = tx[u].seatIds[2]
        /\ tx[t].seatIds[2] = tx[u].seatIds[1]
        /\ tx[t].seatIds[1] # tx[t].seatIds[2]
        /\ tx[t].got \cap (tx[u].cand \ tx[u].got) # {}
        /\ tx[u].got \cap (tx[t].cand \ tx[t].got) # {}

\* a hold that has not expired
LiveHold(seat, t) ==
    seat.status = "PENDING" /\ seat.lockedUntil # NULL /\ seat.lockedUntil >= t

\* worker t's lockSeats commits in this step
LsCommits(t) == pc[t] = "ls_commit" /\ pc'[t] = "idle" /\ result'[t].val = "TRUE"

\* C13: while a seat is PENDING under a lockedUntil that has not passed, no
\* lockSeats and no attemptBooking on a seat list containing it succeeds, and
\* a commit of either leaves every other seat's hold as it was.
C13_HoldExclusive ==
    [][\A t \in Workers :
          (LsCommits(t) \/ AbCommits(t))
          => /\ \A s \in Range(tx[t].seatIds) : ~LiveHold(seats[s], now)
             /\ \A s \in SeatIds :
                   LiveHold(seats[s], now) => seats'[s] = seats[s]]_vars

\* a lockSeats on one existing seat returned false while that seat is held
\* under a lockedUntil that has not passed
C13_Witness ==
    \E t \in Workers :
        /\ result[t].op = "lockSeats" /\ result[t].val = "FALSE"
        /\ Len(result[t].seatIds) = 1
        /\ LiveHold(seats[result[t].seatIds[1]], now)

LsPcs == {"ls_lock", "ls_update", "ls_commit"}

\* C14: a lockSeats that returns false changes no seat; a lock query that
\* returns with a targeted seat unknown, BOOKED or under a hold that had not
\* passed when the transaction began ends the call with false; and a
\* lockSeats that returns true leaves every targeted seat PENDING with the
\* given expiry and every other seat as it was.
C14_HoldAllOrNothing ==
    [][\A t \in Workers :
          /\ (pc[t] \in LsPcs /\ pc'[t] = "idle" /\ result'[t].val = "FALSE")
             => UNCHANGED <<shows, seats, bookings>>
          /\ (/\ pc[t] = "ls_lock" /\ pc'[t] # "ls_lock"
              /\ \E s \in Range(tx[t].seatIds) :
                    \/ ~seats[s].present
                    \/ seats[s].status = "BOOKED"
                    \/ LiveHold(seats[s], tx[t].at))
             => /\ pc'[t] = "idle"
                /\ result'[t].val = "FALSE"
          /\ LsCommits(t)
             => \A s \in SeatIds :
                   IF s \in Range(tx[t].seatIds)
                   THEN /\ seats'[s].status = "PENDING"
                        /\ seats'[s].lockedUntil = tx[t].until
                        /\ seats[s].status # "BOOKED"
                   ELSE seats'[s] = seats[s]]_vars

\* a lockSeats on two seats, the first AVAILABLE and the second BOOKED,
\* returned false and the first is still AVAILABLE
C14_Witness ==
    \E t \in Workers :
        /\ result[t].op = "lockSeats" /\ result[t].val = "FALSE"
        /\ Len(result[t].seatIds) = 2
        /\ seats[result[t].seatIds[1]].status = "AVAILABLE"
        /\ seats[result[t].seatIds[1]].present
        /\ seats[result[t].seatIds[2]].status = "BOOKED"

\* C15: every step that changes the number of BOOKED seats of a show changes
\* the show's availableSeats by the opposite amount in the same commit.
C15_CounterWithStatus ==
    [][\A id \in ShowIds :
          (/\ shows[id].present
           /\ Cardinality(BookedSeats(id)') # Cardinality(BookedSeats(id)))
          => shows'[id].availableSeats - shows[id].availableSeats =
                 Cardinality(BookedSeats(id)) - Cardinality(BookedSeats(id)')]_vars

\* C16: in every committed state a seat has a lockedUntil exactly when its
\* status is PENDING.
C16_SeatInvariant ==
    \A s \in SeatIds :
        seats[s].present => (seats[s].lockedUntil # NULL <=> seats[s].status = "PENDING")

\* a seat taken PENDING by lockSeats was then marked BOOKED by
\* markSeatsAsBooked and has no lockedUntil
C16_Witness ==
    \E t, u \in Workers, s \in SeatIds :
        /\ result[t].op = "lockSeats" /\ result[t].val = "TRUE"
        /\ result[u].op = "markSeatsAsBooked"
        /\ s \in Range(result[t].seatIds) \cap Range(result[u].seatIds)
        /\ seats[s].status = "BOOKED" /\ seats[s].lockedUntil = NULL

\* C17: every booking row has a non-empty seat list, and every seat id in it
\* is a seat of the booking's show.
C17_BookingInvariant ==
    \A i \in DOMAIN bookings :
        /\ Len(bookings[i].seatIds) >= 1
        /\ \A s \in Range(bookings[i].seatIds) :
              seats[s].present /\ seats[s].showId = bookings[i].showId

\* C18: a step changes the status of a booking only from PENDING, and only
\* to CONFIRMED or FAILED.
C18_BookingLifecycle ==
    [][\A i \in DOMAIN bookings :
          bookings'[i].status # bookings[i].status
          => /\ bookings[i].status = "PENDING"
             /\ bookings'[i].status \in {"CONFIRMED", "FAILED"}]_vars

\* C19: markSeatsAsBooked commits only seats that are PENDING under a
\* lockedUntil that has not passed.
C19_ConfirmNeedsLiveHold ==
    [][\A t \in Workers :
          (pc[t] = "mb_rows" /\ pc'[t] = "idle")
          => \A s \in tx[t].got : LiveHold(seats[s], now)]_vars

C21_IdempotentRelease ==
    [][\A t \in Workers :
          /\ (pc[t] = "us_rows" /\ pc'[t] = "idle")
             => /\ result'[t].val = "OK"
                /\ \A s \in SeatIds :
                      IF s \in Range(tx[t].seatIds) /\ seats[s].status = "PENDING"
                      THEN /\ seats'[s].status = "AVAILABLE"
                           /\ seats'[s].lockedUntil = NULL
                      ELSE seats'[s] = seats[s]
          /\ (pc[t] = "us_rows" /\ calls >= 2)
             => UNCHANGED seats]_vars

\* the second unlockSeats of seats 1 and 2 is in flight, seat 1 BOOKED and
\* seat 2 AVAILABLE: it has selected no row
C21_Witness ==
    \E t \in Workers :
        /\ pc[t] = "us_rows" /\ calls = 2
        /\ tx[t].seatIds = <<1, 2>>
        /\ tx[t].cand = {}
        /\ seats[1].status = "BOOKED"
        /\ seats[2].status = "AVAILABLE"

\* C22: releaseExpiredLocks sets to AVAILABLE with no lockedUntil exactly the
\* seats that are PENDING with a lockedUntil in the past, returns their
\* number, and leaves every other seat, every show and every booking as it
\* was.
C22_ReaperSweep ==
    [][\A t \in Workers :
          /\ (pc[t] = "rp_rows" /\ pc'[t] = "idle")
             => /\ \A s \in SeatIds :
                      IF seats[s].present /\ ExpiredHold(seats[s], now)
                      THEN /\ seats'[s].status = "AVAILABLE"
                           /\ seats'[s].lockedUntil = NULL
                      ELSE seats'[s] = seats[s]
                /\ result'[t].count =
                      Cardinality({s \in SeatIds :
                                      seats[s].present /\ ExpiredHold(seats[s], now)})
          /\ (pc[t] = "rp_rows" \/ pc'[t] = "rp_rows")
             => UNCHANGED <<shows, bookings>>
          /\ (pc[t] = "idle" /\ pc'[t] = "rp_rows")
             => UNCHANGED seats]_vars

\* a sweep has returned 1: it released seat 1 and left the unexpired hold of
\* seat 2 and the PENDING booking as they were
C22_Witness ==
    \E t \in Workers :
        /\ result[t].op = "releaseExpiredLocks" /\ result[t].count = 1
        /\ calls = 1
        /\ seats[1].status = "AVAILABLE" /\ seats[1].lockedUntil = NULL
        /\ LiveHold(seats[2], now)
        /\ Len(bookings) = 1 /\ bookings[1].status = "PENDING"

\* C23: a run of the reaper (releaseExpiredLocks, then fail for each expired
\* PENDING booking) made directly after another run, with nothing else in
\* between, changes no seat, show or booking, and its releaseExpiredLocks
\* returns 0.
C23_ReaperIdempotent ==
    [][\A t \in Workers :
          ((pc[t] \in SweepPcs \/ pc'[t] \in SweepPcs) /\ calls' >= 2)
          => /\ UNCHANGED <<shows, seats, bookings>>
             /\ (pc[t] = "rp_rows" /\ pc'[t] = "idle") => result'[t].count = 0]_vars

\* the second run's releaseExpiredLocks has returned 0, the first run having
\* reset seat 1 and failed the expired booking
C23_Witness ==
    \E t \in Workers :
        /\ calls = 2 /\ pc[t] = "idle"
        /\ result[t].op = "releaseExpiredLocks" /\ result[t].count = 0
        /\ Len(bookings) = 1 /\ bookings[1].status = "FAILED"
        /\ seats[1].status = "AVAILABLE"

\* the seats of show id
SeatsOf(id) == {s \in SeatIds : seats[s].present /\ seats[s].showId = id}

\* C24: createShow with totalSeats = N returns a show with availableSeats =
\* totalSeats = N whose seats are N, numbered 1..N, all AVAILABLE with no
\* lockedUntil; and no state that another operation can read has a show with
\* a number of seats other than its totalSeats.
C24_CreateShow ==
    /\ [](\A id \in ShowIds :
            shows[id].present => Cardinality(SeatsOf(id)) = shows[id].totalSeats)
    /\ [][\A t \in Workers, id \in ShowIds :
            (pc[t] = "cs_seats" /\ pc'[t] = "idle" /\ tx[t].showId = id)
            => /\ shows'[id].availableSeats = tx[t].n
               /\ shows'[id].totalSeats = tx[t].n
               /\ Cardinality(SeatsOf(id)') = tx[t].n
               /\ {seats'[s].seatNumber : s \in SeatsOf(id)'} = 1..tx[t].n
               /\ \A s \in SeatsOf(id)' :
                     seats'[s].status = "AVAILABLE" /\ seats'[s].lockedUntil = NULL]_vars

C26_BookedAbsorbing ==
    [][\A s \in SeatIds :
          (seats[s].present /\ seats[s].status = "BOOKED") => seats'[s] = seats[s]]_vars

\* a sweep selected a seat while it was an expired hold, an attemptBooking
\* has since committed it as BOOKED, and the sweep has yet to visit its row
C26_Witness ==
    \E t, u \in Workers, s \in SeatIds :
        /\ pc[t] = "rp_rows"
        /\ s \in tx[t].cand \ tx[t].got
        /\ seats[s].status = "BOOKED"
        /\ result[u].op = "attemptBooking" /\ result[u].val = "CONFIRMED"
        /\ s \in Range(result[u].seatIds)

\* C27: when the sweeper fails an expired PENDING booking, the release of the
\* booking's seat ids leaves every seat that is held under a lockedUntil
\* that has not passed (a hold taken by lockSeats after the booking's own
\* hold expired) PENDING with that lockedUntil.
C27_FailKeepsOtherHolds ==
    [][\A t \in Workers :
          (pc[t] = "sw_rows" /\ pc'[t] = "sw_fail")
          => \A s \in SeatIds : LiveHold(seats[s], now) => seats'[s] = seats[s]]_vars

\* the seats that turn BOOKED in the step
TurnedBooked == {s \in SeatIds : seats[s].status # "BOOKED" /\ seats'[s].status = "BOOKED"}

\* C28 (as stated): an attemptBooking whose seat list names a seat more than
\* once ends with INVALID_SEATS and changes nothing.
C28_Original ==
    [][\A t \in Workers :
          (pc[t] \in AbPcs /\ pc'[t] = "idle" /\ ~NoDup(tx[t].seatIds))
          => /\ result'[t].val = "INVALID_SEATS"
             /\ UNCHANGED <<shows, seats, bookings>>]_vars

\* C28 (amended): such a call ends with INVALID_SEATS when its lock query
\* returns, or with SEATS_LOCKED when the lock query meets a row another
\* transaction holds; either way it changes nothing.  A call that commits
\* has no seat twice in its list and decrements availableSeats by the number
\* of seats it turned BOOKED.
C28_Duplicates ==
    [][\A t \in Workers :
          /\ (AbLockReturns(t) /\ ~NoDup(tx[t].seatIds))
             => /\ pc'[t] = "idle"
                /\ result'[t].val = "INVALID_SEATS"
                /\ UNCHANGED <<shows, seats, bookings>>
          /\ (pc[t] \in AbPcs /\ pc'[t] = "idle" /\ ~NoDup(tx[t].seatIds))
             => /\ result'[t].val \in {"INVALID_SEATS", "SEATS_LOCKED"}
                /\ UNCHANGED <<shows, seats, bookings>>
          /\ AbCommits(t)
             => /\ NoDup(tx[t].seatIds)
                /\ shows[tx[t].showId].availableSeats
                       - shows'[tx[t].showId].availableSeats = Cardinality(TurnedBooked)
                /\ Cardinality(TurnedBooked) = Len(tx[t].seatIds)]_vars

\* a call that named the AVAILABLE seat 1 twice got INVALID_SEATS, and the
\* seat and the counter are as they were
C28_Witness ==
    \E t \in Workers :
        /\ result[t].op = "attemptBooking" /\ result[t].val = "INVALID_SEATS"
        /\ result[t].seatIds = <<1, 1>>
        /\ seats[1].present /\ seats[1].status = "AVAILABLE"
        /\ shows[FirstShow].availableSeats = shows[FirstShow].totalSeats

\* worker t has a request without a response
OpenRequest(t) == pc[t] # "idle" \/ result[t].op = "attemptBooking"

\* the outcomes for which the response is 400
BadRequests == {"INVALID_SEATS", "PAST_SHOW", "INVALID_BODY"}

\* C29: every request gets one response and no second one; the status is 201
\* for a CONFIRMED booking, 409 for SEATS_LOCKED and SEATS_UNAVAILABLE, 400
\* for INVALID_SEATS, a started show and a body without a well-formed,
\* non-empty seat list, 404 for an unknown show and 500 for any other
\* failure; and attemptBooking is called only from the show lookup, for a
\* show that exists and has not started.
C29_RouteResponses ==
    /\ [](\A t \in Workers :
            result[t].op = RouteOp =>
                result[t].count =
                    (CASE result[t].val = "CONFIRMED" -> 201
                       [] result[t].val \in {"SEATS_LOCKED", "SEATS_UNAVAILABLE"} -> 409
                       [] result[t].val \in BadRequests -> 400
                       [] result[t].val = "NOT_FOUND" -> 404
                       [] OTHER -> 500))
    /\ [][\A t \in Workers :
            /\ (pc[t] # "ab_lock" /\ pc'[t] = "ab_lock")
               => /\ pc[t] = "rt_show"
                  /\ shows[tx[t].showId].present
                  /\ ~(StartTime(tx[t].showId) < now)
                  /\ Len(tx[t].seatIds) >= 1
            /\ (OpenRequest(t) /\ ~OpenRequest(t)')
               => result'[t].op = RouteOp
            /\ (result'[t].op = RouteOp /\ result'[t] # result[t])
               => /\ ~OpenRequest(t)'
                  /\ OpenRequest(t) \/ (Idle(t) /\ calls' = calls + 1)]_vars
    /\ \A t \in Workers :
          OpenRequest(t) ~> (~OpenRequest(t) /\ result[t].op = RouteOp)

\* two requests for seat 1 were handled together: one was answered 201, the
\* other 409 for SEATS_LOCKED
C29_Witness ==
    \E t, u \in Workers :
        /\ result[t].op = RouteOp /\ result[t].val = "CONFIRMED" /\ result[t].count = 201
        /\ result[u].op = RouteOp /\ result[u].val = "SEATS_LOCKED" /\ result[u].count = 409
        /\ 1 \in Range(result[t].seatIds) \cap Range(result[u].seatIds)

\* C30: once polling has started for a PENDING booking, the status the
\* client shows for it eventually is CONFIRMED or FAILED.
C30_PollingTerminates ==
    \A t \in Workers :
        (pc[t] = "poll_timer") ~>
            (result[t].op = PollOp /\ result[t].val \in {"CONFIRMED", "FAILED"})

====
